---- MODULE Spec2Model ----
(***************************************************************************)
(* Model of the BradBid order pipeline.  This part covers the matcher      *)
(* (backend/matcher/lambda_function.py): the Redis sorted sets that hold   *)
(* the order books, the DynamoDB trades table, the SQS trades queue and    *)
(* lambda_handler / process_order / match_buy_order / match_sell_order /   *)
(* execute_trade / add_to_order_book.                                      *)
(*                                                                         *)
(* Prices and amounts are whole numbers of ticks; the code's floats are    *)
(* exact on them.  An order is the dict decoded from a record body; a      *)
(* sorted-set member is the JSON text of that dict, modelled as the tuple  *)
(* of its values in key order, compared position by position as Redis      *)
(* compares members of equal score byte by byte.                           *)
(***************************************************************************)
EXTENDS Integers, Sequences, FiniteSets, TLC

\* ---------------------------------------------------------------- bounds
MaxOrderId == 3
MaxDeliveries == 3
MaxBatch == 2
MaxPrice == 2
MaxAmount == 2
MaxRequests == 2

OrderIds == 1..MaxOrderId
Prices == 1..MaxPrice
Amounts == 1..MaxAmount
Pairs == {"BTC-USD"}
AllPairs == {"BTC-USD", "ETH-USD"}
Sides == {"BUY", "SELL"}

\* The orders a record body can carry: what the ingest validation lets through
\* (positive price and amount, side 'BUY' or 'SELL').
Orders ==
  [orderId : OrderIds, pair : Pairs, side : Sides, amount : Amounts, price : Prices]

VARIABLES
  zsets,          \* Redis: key <<pair, side>> -> sorted set, a set of [member, score]
  lastprice,      \* Redis: lastprice:{pair}, 0 while unset
  trades_table,   \* DynamoDB trades table, in put_item order
  trades_queue,   \* SQS trades queue, in send_message order
  response,       \* what the last lambda_handler invocation returned
  delivered,      \* history: every order delivered to the matcher, in order
  fills,          \* history: one entry per execute_trade call made by a match
  pre,            \* history: the stores as they were before the last record
  log,            \* history: one entry per record the handler's loop took up
  invoked,        \* history: the event and the environment of the last invocation
  orders_stream,  \* Kinesis orders stream, in put_record order
  orders_table,   \* DynamoDB orders table (audit trail), in put_item order
  http_response,  \* what the last ingest invocation returned
  requests,       \* history: the number of requests made to the ingest function
  request,        \* history: the event and the environment of the last request
  raw_order,      \* the dict validate_order is called with
  validated,      \* what validate_order returned, once it was called
  connections,    \* DynamoDB connections table of the WebSocket API, a set of items
  posted,         \* the post_to_connection calls of the last broadcaster invocation
  ws_response,    \* what the last WebSocket or broadcaster invocation returned
  ws_event,       \* history: the event and the environment of that invocation
  consumed,       \* the number of trades queue messages the broadcaster was given
  running         \* concurrent matcher invocations: where each is in its code,
                  \* and the order and the range it holds in its local variables

matcher_vars ==
  <<zsets, lastprice, trades_table, trades_queue, response, delivered, fills, pre,
    log, invoked>>

ingest_vars ==
  <<orders_stream, orders_table, http_response, requests, request, raw_order, validated>>

ws_vars == <<connections, posted, ws_response, ws_event, consumed>>

vars ==
  <<zsets, lastprice, trades_table, trades_queue, response, delivered, fills, pre,
    log, invoked, orders_stream, orders_table, http_response, requests, request,
    raw_order, validated, connections, posted, ws_response, ws_event, consumed,
    running>>

\* The sides a book key can be built from: f"orderbook:{pair}:{side}" takes the
\* side of the order as it is, and Redis makes the key when it is first used.
BookSides == Sides \cup {"HOLD"}

Keys == AllPairs \X BookSides

\* The matcher invocations that can run at the same time.
Invocations == {1, 2}

\* ------------------------------------------------------- Python / JSON
min(a, b) == IF a <= b THEN a ELSE b

upper(s) ==
  CASE s = "buy" -> "BUY" [] s = "sell" -> "SELL" [] s = "btc-usd" -> "BTC-USD"
    [] OTHER -> s

\* json.dumps of an order dict: the values in the dict's key order, which is
\* the key order of the record body (orderId, pair, side, amount, price).
\* Ids, prices and amounts are single digits here, so their texts compare as
\* the numbers do.
json_dumps(order) ==
  <<order.orderId, order.pair, order.side, order.amount, order.price>>

json_loads(data) ==
  [orderId |-> data[1], pair |-> data[2], side |-> data[3],
   amount |-> data[4], price |-> data[5]]

\* Byte order of two texts of the same field.
StrRank(s) ==
  CASE s = "BTC-USD" -> 1 [] s = "BUY" -> 2 [] s = "ETH-USD" -> 3
    [] s = "SELL" -> 4 [] OTHER -> 5

FieldLess(i, x, y) == IF i \in {2, 3} THEN StrRank(x) < StrRank(y) ELSE x < y

\* Lexicographic order of two members (JSON texts).
MemberLess(a, b) ==
  \E i \in 1..5 : /\ \A j \in 1..(i - 1) : a[j] = b[j]
                  /\ a[i] # b[i]
                  /\ FieldLess(i, a[i], b[i])

\* ------------------------------------------------------ Redis sorted sets
\* Order of a sorted set: by score, members of equal score lexicographically.
ZLess(e1, e2) ==
  \/ e1.score < e2.score
  \/ e1.score = e2.score /\ MemberLess(e1.member, e2.member)

RECURSIVE Ascending(_)
Ascending(S) ==
  IF S = {} THEN <<>>
  ELSE LET e == CHOOSE x \in S : \A y \in S \ {x} : ZLess(x, y)
       IN <<e>> \o Ascending(S \ {e})

RECURSIVE Descending(_)
Descending(S) ==
  IF S = {} THEN <<>>
  ELSE LET e == CHOOSE x \in S : \A y \in S \ {x} : ZLess(y, x)
       IN <<e>> \o Descending(S \ {e})

\* '+inf' as a score bound: above every score a book can hold.
PlusInf == MaxPrice + 1

InRange(score, lo, hi) == lo <= score /\ score <= hi

\* ZRANGEBYSCORE key lo hi WITHSCORES
zrangebyscore(zset, lo, hi) ==
  Ascending({e \in zset : InRange(e.score, lo, hi)})

\* ZREVRANGEBYSCORE key hi lo WITHSCORES
zrevrangebyscore(zset, hi, lo) ==
  Descending({e \in zset : InRange(e.score, lo, hi)})

\* ZADD key score member: a member is held once, with its latest score.
zadd(zset, member, score) ==
  {e \in zset : e.member # member} \cup {[member |-> member, score |-> score]}

\* ZREM key member
zrem(zset, member) == {e \in zset : e.member # member}

\* ------------------------------------------------------------- matcher
\* What the services outside the matcher can do while one record is
\* processed: work, or fail the DynamoDB put_item, or fail the SQS send_message.
Faults == {"none", "dynamodb", "sqs"}

\* The stores an invocation works on, with the history kept beside them, the
\* handler's local batch_item_failures, and the control state of the Python
\* code: raised is TRUE while an exception propagates, and every statement it
\* passes on its way to the except clause is skipped.
World ==
  [zsets |-> zsets, lastprice |-> lastprice, trades_table |-> trades_table,
   trades_queue |-> trades_queue, fills |-> fills, pre |-> pre, log |-> log,
   batch_item_failures |-> <<>>, raised |-> FALSE, fault |-> "none",
   redis_up |-> TRUE]

raise(w) == [w EXCEPT !.raised = TRUE]

\* The key built without the pair: one book for all pairs.
orderbook_key_one_pair(pair, side) == <<"BTC-USD", side>>

\* f"orderbook:{pair}:{side}"
orderbook_key(pair, side) == <<pair, side>>

\* put_item; its failure is logged and raised again.
save_trade_to_dynamodb(w, trade_data) ==
  IF w.fault = "dynamodb" THEN raise(w)
  ELSE [w EXCEPT !.trades_table = Append(@, trade_data)]

\* send_message with every trade put in one message group.
send_trade_event_one_group(w, trade_data) ==
  IF w.fault = "sqs" THEN raise(w)
  ELSE [w EXCEPT !.trades_queue =
          Append(@, [MessageBody |-> trade_data, MessageGroupId |-> "BTC-USD"])]

\* send_message with the pair as MessageGroupId; its failure is logged and
\* raised again.
send_trade_event(w, trade_data) ==
  IF w.fault = "sqs" THEN raise(w)
  ELSE [w EXCEPT !.trades_queue =
          Append(@, [MessageBody |-> trade_data, MessageGroupId |-> trade_data.pair])]

\* r.set(f"lastprice:{pair}", price), reached when nothing was raised before.
set_lastprice(w, pair, price) ==
  IF w.raised THEN w ELSE [w EXCEPT !.lastprice[pair] = price]

\* The publish made whether or not the durable write succeeded.
publish_and_price_regardless(w, trade_data) ==
  set_lastprice(send_trade_event([w EXCEPT !.raised = FALSE], trade_data),
                trade_data.pair, trade_data.price)

\* execute_trade after save_trade_to_dynamodb: publish, then set lastprice.
publish_and_price(w, trade_data) ==
  IF w.raised THEN w
  ELSE set_lastprice(send_trade_event(w, trade_data), trade_data.pair, trade_data.price)

execute_trade(w, buy_order, sell_order, pair, price, amount) ==
  LET trade_data ==
        [tradeId |-> Len(w.trades_table) + 1,
         pair |-> pair,
         price |-> price,
         amount |-> amount,
         buyOrderId |-> buy_order.orderId,
         sellOrderId |-> sell_order.orderId]
  IN publish_and_price(save_trade_to_dynamodb(w, trade_data), trade_data)

\* add_to_order_book with the key built from the other side.
add_to_order_book_opposite(w, order) ==
  LET key == orderbook_key(order.pair,
                           IF upper(order.side) = "BUY" THEN "SELL" ELSE "BUY")
  IN [w EXCEPT !.zsets[key] = zadd(@, json_dumps(order), order.price)]

add_to_order_book(w, order) ==
  LET key == orderbook_key(order.pair, upper(order.side))
  IN [w EXCEPT !.zsets[key] = zadd(@, json_dumps(order), order.price)]

\* History of one match: who took, which entry made, and the opposite book
\* the maker was chosen from.
Fill(w, taker, taker_amount, entry, amount) ==
  [trade |-> Len(w.trades_table) + 1,
   taker |-> taker.orderId,
   takerSide |-> upper(taker.side),
   takerPrice |-> taker.price,
   takerAmount |-> taker_amount,
   maker |-> json_loads(entry.member).orderId,
   makerEntry |-> entry,
   amount |-> amount,
   opposite |-> w.zsets[orderbook_key(taker.pair,
                  IF upper(taker.side) = "BUY" THEN "SELL" ELSE "BUY")]]

record_fill(w, fill) == [w EXCEPT !.fills = Append(@, fill)]

\* The SELL read taken best-last: the reversed range of the BUY side.
crossing_sell_orders_reversed(zset, buy_price) == zrevrangebyscore(zset, buy_price, 0)

\* What match_buy_order reads from Redis: the SELL entries priced <= buy_price.
crossing_sell_orders(zset, buy_price) == zrangebyscore(zset, 0, buy_price)

\* The BUY read without the sell limit as its lower bound.
crossing_buy_orders_unbounded(zset, sell_price) == zrevrangebyscore(zset, PlusInf, 0)

\* What match_sell_order reads from Redis: the BUY entries priced >= sell_price.
crossing_buy_orders(zset, sell_price) == zrevrangebyscore(zset, PlusInf, sell_price)

\* The trade priced at the taker's limit.
trade_price_taker(taker_price, maker_price) == taker_price

\* The price a trade executes at, given the taker's limit and the maker's score.
trade_price(taker_price, maker_price) == maker_price

\* The amount a trade executes for.
trade_amount(taker_amount, maker_amount) == min(taker_amount, maker_amount)

\* "Update or remove ... order from order book": the matched maker is written
\* back with what is left of it, or removed when nothing is left.
update_maker(w, key, entry, remaining_amount) ==
  IF w.raised THEN w
  ELSE IF remaining_amount > 0
  THEN [w EXCEPT !.zsets[key] =
          zadd(@, json_dumps([json_loads(entry.member) EXCEPT
                                !.amount = remaining_amount]), entry.score)]
  ELSE [w EXCEPT !.zsets[key] = zrem(@, entry.member)]

\* "If ... order is partially filled, add remainder to order book".
add_remainder(w, order, remaining_amount) ==
  IF w.raised THEN w
  ELSE IF remaining_amount > 0
  THEN add_to_order_book(w, [order EXCEPT !.amount = remaining_amount])
  ELSE w

\* match_buy_order from the trade on, for the entry and the amount chosen.
buy_trade(w, buy_order, pair, buy_amount, entry, price, amount) ==
  add_remainder(
    update_maker(
      execute_trade(record_fill(w, Fill(w, buy_order, buy_amount, entry, amount)),
                    buy_order, json_loads(entry.member), pair, price, amount),
      orderbook_key(pair, "SELL"), entry, json_loads(entry.member).amount - amount),
    buy_order, buy_amount - amount)

\* match_buy_order once the crossing SELL entries have been read.
buy_from(w, buy_order, pair, buy_price, buy_amount, sell_orders) ==
  IF sell_orders = <<>> THEN [w |-> w, matched |-> FALSE]
  ELSE [w |-> buy_trade(w, buy_order, pair, buy_amount, sell_orders[1],
                        trade_price(buy_price, sell_orders[1].score),
                        trade_amount(buy_amount,
                                     json_loads(sell_orders[1].member).amount)),
        matched |-> TRUE]

match_buy_order(w, buy_order, pair, buy_price, buy_amount) ==
  buy_from(w, buy_order, pair, buy_price, buy_amount,
           crossing_sell_orders(w.zsets[orderbook_key(pair, "SELL")], buy_price))

\* match_sell_order from the trade on, for the entry and the amount chosen.
sell_trade(w, sell_order, pair, sell_amount, entry, price, amount) ==
  add_remainder(
    update_maker(
      execute_trade(record_fill(w, Fill(w, sell_order, sell_amount, entry, amount)),
                    json_loads(entry.member), sell_order, pair, price, amount),
      orderbook_key(pair, "BUY"), entry, json_loads(entry.member).amount - amount),
    sell_order, sell_amount - amount)

\* match_sell_order once the crossing BUY entries have been read.
sell_to(w, sell_order, pair, sell_price, sell_amount, buy_orders) ==
  IF buy_orders = <<>> THEN [w |-> w, matched |-> FALSE]
  ELSE [w |-> sell_trade(w, sell_order, pair, sell_amount, buy_orders[1],
                         trade_price(sell_price, buy_orders[1].score),
                         trade_amount(sell_amount,
                                      json_loads(buy_orders[1].member).amount)),
        matched |-> TRUE]

match_sell_order(w, sell_order, pair, sell_price, sell_amount) ==
  sell_to(w, sell_order, pair, sell_price, sell_amount,
          crossing_buy_orders(w.zsets[orderbook_key(pair, "BUY")], sell_price))

\* process_order after the match attempt: "if not matched: add to order book".
add_if_unmatched(m, order) ==
  IF ~m.matched THEN add_to_order_book(m.w, order) ELSE m.w

\* The keys process_order reads from the order dict.
order_keys == {"pair", "side", "price", "amount", "orderId"}

\* process_order reads the five keys before it does anything else to the
\* stores: an order dict without one of them raises KeyError there.
process_order(w, order) ==
  IF order_keys \ DOMAIN order # {} THEN raise(w)
  ELSE add_if_unmatched(
         IF upper(order.side) = "BUY"
         THEN match_buy_order(w, order, order.pair, order.price, order.amount)
         ELSE match_sell_order(w, order, order.pair, order.price, order.amount),
         order)

\* The stores before a record is processed, kept for the properties.
Snapshot(w) ==
  [zsets |-> w.zsets, trades |-> Len(w.trades_table), queue |-> Len(w.trades_queue)]

\* A record body that is not JSON text.
InvalidJson == [text |-> "invalid json{"]

\* The try block with a body that is not JSON passed over in silence.
try_record_lenient(w, record) ==
  IF record.body = InvalidJson THEN w ELSE process_order(w, record.body)

\* The try block of the loop: json.loads(record['body']) raises on a body that
\* is not JSON; the order decoded from any other body goes to process_order.
try_record(w, record) ==
  IF record.body = InvalidJson THEN raise(w) ELSE process_order(w, record.body)

\* The except clause reporting the record before the one that raised.
except_record_previous(w, record) ==
  [w EXCEPT !.batch_item_failures =
              IF w.raised THEN Append(@, [itemIdentifier |-> record.messageId - 1]) ELSE @,
            !.log = Append(@, [messageId |-> record.messageId,
                               body |-> record.body,
                               fault |-> record.fault,
                               pre |-> w.pre,
                               raised |-> w.raised]),
            !.raised = FALSE]

\* The except clause of the loop and the step to the next record: an
\* exception raised by the record is caught here and the record's messageId
\* is appended to batch_item_failures.
except_record(w, record) ==
  [w EXCEPT !.batch_item_failures =
              IF w.raised THEN Append(@, [itemIdentifier |-> record.messageId]) ELSE @,
            !.log = Append(@, [messageId |-> record.messageId,
                               body |-> record.body,
                               fault |-> record.fault,
                               pre |-> w.pre,
                               raised |-> w.raised]),
            !.raised = FALSE]

\* lambda_handler's loop over event['Records']: each record's order is
\* processed in turn on what the record before it left behind.
RECURSIVE process_records(_, _)
process_records(w, records) ==
  IF records = <<>> THEN w
  ELSE process_records(
         except_record(
           try_record([w EXCEPT !.pre = Snapshot(w), !.fault = Head(records).fault],
                      Head(records)),
           Head(records)),
         Tail(records))

\* The handler's return value once the loop has ended.
return_failures(w) ==
  [w |-> w, response |-> [raised |-> FALSE, batchItemFailures |-> w.batch_item_failures]]

\* The handler without the connection test.
lambda_handler_no_ping(w, event) ==
  return_failures(process_records(w, event.Records))

\* r.ping() raises when Redis cannot be reached; the outer except clause logs
\* and raises again, so the invocation ends without a return value.
lambda_handler(w, event) ==
  IF ~w.redis_up THEN [w |-> w, response |-> [raised |-> TRUE, batchItemFailures |-> <<>>]]
  ELSE return_failures(process_records(w, event.Records))

\* ---------------------------------------------------------- specification
EmptyBooks == [k \in Keys |-> {}]

InitStores ==
  /\ zsets = EmptyBooks
  /\ lastprice = [p \in AllPairs |-> 0]
  /\ trades_table = <<>>
  /\ trades_queue = <<>>
  /\ response = [raised |-> FALSE, batchItemFailures |-> <<>>]
  /\ delivered = <<>>
  /\ fills = <<>>
  /\ pre = [zsets |-> EmptyBooks, trades |-> 0, queue |-> 0]
  /\ log = <<>>
  /\ invoked = [Records |-> <<>>, redis_up |-> TRUE]
  /\ orders_stream = <<>>
  /\ orders_table = <<>>
  /\ http_response = [statusCode |-> 0, body |-> [message |-> "none"]]
  /\ requests = 0
  /\ request = [event |-> [body |-> InvalidJson],
                env |-> [kinesis_up |-> TRUE, audit |-> "off", now |-> 0,
                         uuid |-> <<"uuid", 0>>]]
  /\ running = [p \in Invocations |-> [pc |-> "idle", order |-> <<>>, orders |-> <<>>]]
  /\ connections = {}
  /\ posted = <<>>
  /\ ws_response = [statusCode |-> 0]
  /\ ws_event = [handler |-> "none"]
  /\ consumed = 0

Init ==
  /\ InitStores
  /\ raw_order = <<>>
  /\ validated = [called |-> FALSE, is_valid |-> FALSE, error_message |-> <<>>]

\* Order ids are opaque strings chosen by the clients: a run takes them in
\* ascending or in descending order of arrival, so that of two orders either
\* may carry the lower id.
DeliveredIds(orders) == {orders[i].orderId : i \in 1..Len(orders)}

FreshIds(orders) ==
  LET used == DeliveredIds(orders)
  IN IF used = {} THEN {1, MaxOrderId}
     ELSE IF 1 \in used
          THEN {id \in OrderIds : id \notin used /\ id - 1 \in used}
          ELSE {id \in OrderIds : id \notin used /\ id + 1 \in used}

\* What the queue can deliver next: a new order, or again a record it has
\* delivered before (at-least-once delivery).
NextOrders(orders) ==
  {orders[i] : i \in 1..Len(orders)} \cup
  {o \in Orders : o.orderId \in FreshIds(orders)}

RECURSIVE BatchesFrom(_, _)
BatchesFrom(orders, n) ==
  IF n = 0 THEN {<<>>}
  ELSE {<<>>} \cup
       UNION {{<<o>> \o b : b \in BatchesFrom(Append(orders, o), n - 1)} :
                o \in NextOrders(orders)}

\* The SQS event that carries a batch: one record per order, each with its
\* own message id.  The fault is not part of the record: it is what the
\* services outside do while the record is processed.
Event(batch) ==
  [Records |-> [i \in 1..Len(batch) |->
                  [messageId |-> Len(delivered) + i, body |-> batch[i],
                   fault |-> "none"]]]

\* An invocation ends: the stores are what the handler left, the response is
\* what it returned.
Returns(out, event, up) ==
  /\ zsets' = out.w.zsets
  /\ lastprice' = out.w.lastprice
  /\ trades_table' = out.w.trades_table
  /\ trades_queue' = out.w.trades_queue
  /\ fills' = out.w.fills
  /\ pre' = out.w.pre
  /\ log' = out.w.log
  /\ response' = out.response
  /\ invoked' = [Records |-> event.Records, redis_up |-> up]
  /\ delivered' = delivered \o [i \in 1..Len(event.Records) |-> event.Records[i].body]
  /\ UNCHANGED ingest_vars
  /\ UNCHANGED ws_vars
  /\ UNCHANGED running

\* One invocation of the matcher on a batch of SQS records.
LambdaHandler ==
  \E batch \in BatchesFrom(delivered,
                            min(MaxBatch, MaxDeliveries - Len(delivered))) :
    /\ batch # <<>>
    /\ \E out \in {lambda_handler(World, Event(batch))} :
          Returns(out, Event(batch), TRUE)

Next == LambdaHandler

Spec == Init /\ [][Next]_vars

\* ------------------------------------------- specification with failures
\* The matcher on records of any kind, with services that can fail: a body
\* is a limit order, an order without a price (a market order), or text that
\* is not JSON; DynamoDB or SQS can fail while a record is processed; Redis
\* can be out of reach when an invocation starts.  Each order has an id of
\* its own, the number of its record.  To keep the runs small the sinks fail
\* only under orders of the largest amount, and market orders carry it.
LimitOrders(n) ==
  {o \in Orders : o.orderId = n /\ o.price \in {1, MaxPrice} /\ o.amount \in {1, MaxAmount}}

MarketOrders(n) ==
  [orderId : {n} \cap OrderIds, pair : Pairs, side : Sides, amount : {MaxAmount}]

RecordsAt(n) ==
  {[messageId |-> n, body |-> o, fault |-> "none"] : o \in LimitOrders(n)}
  \cup {[messageId |-> n, body |-> o, fault |-> f] :
          o \in {x \in LimitOrders(n) : x.amount = MaxAmount},
          f \in Faults \ {"none"}}
  \cup {[messageId |-> n, body |-> o, fault |-> "none"] : o \in MarketOrders(n)}
  \cup {[messageId |-> n, body |-> InvalidJson, fault |-> "none"]}

RECURSIVE RecordBatches(_, _)
RecordBatches(first, n) ==
  IF n = 0 THEN {<<>>}
  ELSE {<<>>} \cup
       UNION {{<<r>> \o b : b \in RecordBatches(first + 1, n - 1)} :
                r \in RecordsAt(first)}

\* One invocation that reaches Redis and works through its batch.
HandleRecords ==
  \E batch \in RecordBatches(Len(delivered) + 1,
                              min(MaxBatch, MaxDeliveries - Len(delivered))) :
    /\ batch # <<>>
    /\ \E out \in {lambda_handler(World, [Records |-> batch])} :
          Returns(out, [Records |-> batch], TRUE)

\* One invocation that finds Redis out of reach.  The sinks are not called
\* by it, so one behaviour of theirs stands for all.
RedisUnreachable ==
  \E batch \in RecordBatches(Len(delivered) + 1,
                              min(MaxBatch, MaxDeliveries - Len(delivered))) :
    /\ batch # <<>>
    /\ \A i \in 1..Len(batch) : batch[i].fault = "none"
    /\ \E out \in {lambda_handler([World EXCEPT !.redis_up = FALSE],
                                   [Records |-> batch])} :
          Returns(out, [Records |-> batch], FALSE)

NextFaults == HandleRecords \/ RedisUnreachable

SpecFaults == Init /\ [][NextFaults]_vars

\* ------------------------------------------ specification with two pairs
\* The matcher on limit orders of two trading pairs, every order with an id
\* of its own, the number of its record.
PairOrders(n) ==
  {[orderId |-> n, pair |-> p, side |-> sd, amount |-> a, price |-> pr] :
     p \in AllPairs, sd \in Sides, a \in {1, MaxAmount}, pr \in {1, MaxPrice}}

RECURSIVE PairBatches(_, _)
PairBatches(first, n) ==
  IF n = 0 THEN {<<>>}
  ELSE {<<>>} \cup
       UNION {{<<o>> \o b : b \in PairBatches(first + 1, n - 1)} :
                o \in PairOrders(first)}

\* One invocation of the matcher on a batch that can mix the pairs.
HandlePairs ==
  \E batch \in PairBatches(Len(delivered) + 1,
                            min(MaxBatch, MaxDeliveries - Len(delivered))) :
    /\ batch # <<>>
    /\ \E out \in {lambda_handler(World, Event(batch))} :
          Returns(out, Event(batch), TRUE)

NextPairs == HandlePairs

SpecPairs == Init /\ [][NextPairs]_vars

\* ------------------------------- specification of concurrent invocations
\* Two invocations of the matcher at work on the same Redis, each on a batch
\* of one limit order.  An invocation is a sequence of calls to Redis and to
\* the sinks, and the calls of the two interleave: the code takes no lock and
\* opens no transaction.  The steps are the range read, execute_trade, the
\* write of the maker, and the write of the taker; the three calls inside
\* execute_trade are taken as one step.
ConcurrentOrders(n) ==
  {o \in Orders : o.orderId = n /\ o.price \in {1, MaxPrice} /\ o.amount \in {1, MaxAmount}}

\* The local variables of an invocation at work on its order.
TakerOf(p) == running[p].order[1]
BestOf(p) == running[p].orders[1]
OppositeKeyOf(p) ==
  orderbook_key(TakerOf(p).pair, IF upper(TakerOf(p).side) = "BUY" THEN "SELL" ELSE "BUY")
AmountOf(p) == trade_amount(TakerOf(p).amount, json_loads(BestOf(p).member).amount)

\* A step of one invocation leaves the stores as w and moves it on to pc.
Step(p, w, pc) ==
  /\ zsets' = w.zsets
  /\ lastprice' = w.lastprice
  /\ trades_table' = w.trades_table
  /\ trades_queue' = w.trades_queue
  /\ fills' = w.fills
  /\ running' = [running EXCEPT ![p].pc = pc]
  /\ UNCHANGED <<response, delivered, pre, log, invoked>>
  /\ UNCHANGED ingest_vars
  /\ UNCHANGED ws_vars

\* lambda_handler is invoked with a record and decodes its order.
Receive(p) ==
  /\ running[p].pc = "idle"
  /\ Len(delivered) < MaxDeliveries
  /\ \E o \in ConcurrentOrders(Len(delivered) + 1) :
       /\ running' = [running EXCEPT ![p] = [pc |-> "read", order |-> <<o>>, orders |-> <<>>]]
       /\ delivered' = Append(delivered, o)
  /\ UNCHANGED <<zsets, lastprice, trades_table, trades_queue, response, fills, pre,
                 log, invoked>>
  /\ UNCHANGED ingest_vars
  /\ UNCHANGED ws_vars

\* r.zrangebyscore / r.zrevrangebyscore in match_buy_order / match_sell_order.
ReadRange(p) ==
  /\ running[p].pc = "read"
  /\ \E range \in {IF upper(TakerOf(p).side) = "BUY"
                    THEN crossing_sell_orders(zsets[OppositeKeyOf(p)], TakerOf(p).price)
                    ELSE crossing_buy_orders(zsets[OppositeKeyOf(p)], TakerOf(p).price)} :
       running' = [running EXCEPT ![p].orders = range,
                                  ![p].pc = IF range = <<>> THEN "add" ELSE "trade"]
  /\ UNCHANGED matcher_vars
  /\ UNCHANGED ingest_vars
  /\ UNCHANGED ws_vars

\* add_to_order_book in process_order, when the range was empty.
AddToOrderBook(p) ==
  /\ running[p].pc = "add"
  /\ Step(p, add_to_order_book(World, TakerOf(p)), "idle")

\* execute_trade with the first entry of the range read before.
ExecuteTrade(p) ==
  /\ running[p].pc = "trade"
  /\ Step(p,
          execute_trade(
            record_fill(World, Fill(World, TakerOf(p), TakerOf(p).amount, BestOf(p),
                                    AmountOf(p))),
            IF upper(TakerOf(p).side) = "BUY" THEN TakerOf(p)
                                              ELSE json_loads(BestOf(p).member),
            IF upper(TakerOf(p).side) = "BUY" THEN json_loads(BestOf(p).member)
                                              ELSE TakerOf(p),
            TakerOf(p).pair,
            trade_price(TakerOf(p).price, BestOf(p).score),
            AmountOf(p)),
          "update")

\* The zadd or zrem of the maker after execute_trade.
UpdateMaker(p) ==
  /\ running[p].pc = "update"
  /\ Step(p,
          update_maker(World, OppositeKeyOf(p), BestOf(p),
                       json_loads(BestOf(p).member).amount - AmountOf(p)),
          "remainder")

\* The zadd of what is left of the taker, which ends the invocation.
AddRemainder(p) ==
  /\ running[p].pc = "remainder"
  /\ Step(p, add_remainder(World, TakerOf(p), TakerOf(p).amount - AmountOf(p)), "idle")

NextConcurrent ==
  \E p \in Invocations :
    \/ Receive(p)
    \/ ReadRange(p)
    \/ AddToOrderBook(p)
    \/ ExecuteTrade(p)
    \/ UpdateMaker(p)
    \/ AddRemainder(p)

SpecConcurrent == Init /\ [][NextConcurrent]_vars

\* -------------------------------------------------------------- ingest
\* backend/ingest/lambda_function.py.  A request body is the dict decoded
\* from the request, with any of its keys missing.  A JSON value that should
\* be a number is [num |-> n] for a number, [text |-> t] for a string, and
\* [special |-> l] for one of the literals NaN, Infinity and -Infinity, which
\* json.loads reads as the floats nan, inf and -inf.
Finite(n) == [class |-> "finite", num |-> n]

\* float() of a string: the text of a number, "nan" and "inf" are floats,
\* anything else raises ValueError.
float_of_text(t) ==
  CASE t = "2" -> Finite(2)
    [] t = "nan" -> [class |-> "nan"]
    [] t = "inf" -> [class |-> "inf"]
    [] OTHER -> [class |-> "ValueError"]

float_of_special(l) ==
  CASE l = "NaN" -> [class |-> "nan"]
    [] l = "Infinity" -> [class |-> "inf"]
    [] OTHER -> [class |-> "-inf"]

float(v) ==
  IF "num" \in DOMAIN v THEN Finite(v.num)
  ELSE IF "special" \in DOMAIN v THEN float_of_special(v.special)
  ELSE float_of_text(v.text)

IsNumeric(v) == float(v).class # "ValueError"

\* x <= 0 on floats: every comparison with nan is False, and inf is above 0.
le_zero(x) == x.class = "-inf" \/ (x.class = "finite" /\ x.num <= 0)

\* str.strip() on the symbols of the model.
strip(s) ==
  CASE s = "   " -> ""
    [] s = " BTC-USD " -> "BTC-USD"
    [] OTHER -> s

required_fields == <<"orderId", "symbol", "side", "quantity", "price">>

MissingFields(order) ==
  {i \in 1..Len(required_fields) : required_fields[i] \notin DOMAIN order}

\* The first of the required fields that the order lacks.
FirstMissing(order) ==
  required_fields[CHOOSE i \in MissingFields(order) :
                    \A j \in MissingFields(order) : i <= j]

validate_order(order) ==
  IF MissingFields(order) # {}
    THEN [is_valid |-> FALSE,
          error_message |-> <<"Missing required field: ", FirstMissing(order)>>]
  ELSE IF order.side \notin {"BUY", "SELL"}
    THEN [is_valid |-> FALSE, error_message |-> <<"side must be 'BUY' or 'SELL'">>]
  ELSE IF ~IsNumeric(order.quantity) \/ ~IsNumeric(order.price)
    THEN [is_valid |-> FALSE, error_message |-> <<"quantity and price must be numeric">>]
  ELSE IF le_zero(float(order.quantity))
    THEN [is_valid |-> FALSE, error_message |-> <<"quantity must be positive">>]
  ELSE IF le_zero(float(order.price))
    THEN [is_valid |-> FALSE, error_message |-> <<"price must be positive">>]
  ELSE IF strip(order.symbol) = ""
    THEN [is_valid |-> FALSE, error_message |-> <<"symbol must be a non-empty string">>]
  ELSE [is_valid |-> TRUE, error_message |-> <<"OK">>]

\* f"{body['symbol']}-{body['side']}": the two texts joined by a hyphen.  A
\* side has no hyphen in it, so the joined text names one symbol and one side.
partition_key(body) == <<body.symbol, "-", body.side>>

\* The stores the ingest function works on.
IngestWorld == [orders_stream |-> orders_stream, orders_table |-> orders_table]

\* kinesis_client.put_record: the stream numbers its records as they arrive.
put_record(w, data, key) ==
  [w EXCEPT !.orders_stream =
     Append(@, [Data |-> data, PartitionKey |-> key, SequenceNumber |-> Len(@) + 1])]

audit_order_republish(w, body, env) ==
  IF env.audit = "ok"
  THEN [w EXCEPT !.orders_table =
          Append(@, [OrderId |-> body.orderId, Symbol |-> body.symbol,
                     Side |-> body.side, Quantity |-> body.quantity,
                     Price |-> body.price, Timestamp |-> body.timestamp,
                     Status |-> "PENDING",
                     KinesisSequenceNumber |-> Len(w.orders_stream)])]
  ELSE IF env.audit = "fail" THEN put_record(w, body, partition_key(body))
  ELSE w

\* The audit write, made when DYNAMODB_TABLE is set; its failure is printed
\* and the request goes on.
audit_order(w, body, env) ==
  IF env.audit = "ok"
  THEN [w EXCEPT !.orders_table =
          Append(@, [OrderId |-> body.orderId, Symbol |-> body.symbol,
                     Side |-> body.side, Quantity |-> body.quantity,
                     Price |-> body.price, Timestamp |-> body.timestamp,
                     Status |-> "PENDING",
                     KinesisSequenceNumber |-> Len(w.orders_stream)])]
  ELSE w

accepted(w, body) ==
  [w |-> w,
   response |-> [statusCode |-> 200,
                 body |-> [message |-> "Order accepted", orderId |-> body.orderId,
                           sequenceNumber |-> Len(w.orders_stream)]]]

InternalServerError ==
  [statusCode |-> 500,
   body |-> [error |-> "Internal server error", message |-> "Failed to process order"]]

publish_order_audit_first(w, body, env) ==
  IF ~env.kinesis_up
  THEN [w |-> audit_order(w, body, env), response |-> InternalServerError]
  ELSE accepted(audit_order(put_record(w, body, partition_key(body)), body, env), body)

\* The handler from the partition key on, for a body that passed validation.
publish_order(w, body, env) ==
  IF ~env.kinesis_up
  THEN [w |-> w, response |-> InternalServerError]
  ELSE accepted(audit_order(put_record(w, body, partition_key(body)), body, env), body)

\* Adds the key to the dict, or replaces its value.
With(body, field, value) ==
  [k \in DOMAIN body \cup {field} |-> IF k = field THEN value ELSE body[k]]

\* body['timestamp'] = int(time.time() * 1000) when the request has none.
with_timestamp(body, now) ==
  IF "timestamp" \in DOMAIN body THEN body ELSE With(body, "timestamp", now)

\* An order id is a string: <<"order", n>> is the one a client gives its n-th
\* request, <<>> the empty string, and <<"uuid", n>> what str(uuid.uuid4())
\* returns during the n-th request.
ClientOrderId(n) == <<"order", n>>

EmptyOrderId == <<>>

uuid4(n) == <<"uuid", n>>

\* body['orderId'] = str(uuid.uuid4()) when the body has no order id or an
\* empty one.
with_order_id(body, uuid) ==
  IF "orderId" \notin DOMAIN body \/ body.orderId = EmptyOrderId
  THEN With(body, "orderId", uuid)
  ELSE body

ValidationFailed(message) ==
  [statusCode |-> 400, body |-> [error |-> "Validation failed", message |-> message]]

ingest_lambda_handler_publish_first(w, event, env) ==
  IF event.body = InvalidJson
  THEN [w |-> w, response |-> [statusCode |-> 400,
          body |-> [error |-> "Invalid JSON", message |-> "decode error"]]]
  ELSE IF ~validate_order(event.body).is_valid
  THEN [w |-> put_record(w, event.body, <<>>),
        response |-> ValidationFailed(validate_order(event.body).error_message)]
  ELSE publish_order(w, with_order_id(with_timestamp(event.body, env.now), env.uuid), env)

ingest_lambda_handler(w, event, env) ==
  IF event.body = InvalidJson
  THEN [w |-> w, response |-> [statusCode |-> 400,
          body |-> [error |-> "Invalid JSON", message |-> "decode error"]]]
  ELSE IF ~validate_order(event.body).is_valid
  THEN [w |-> w, response |-> ValidationFailed(validate_order(event.body).error_message)]
  ELSE publish_order(w, with_order_id(with_timestamp(event.body, env.now), env.uuid), env)

\* -------------------------------------------- specification of the ingest
\* The requests a client can make: every combination of a few values of the
\* five fields, each of them with one field left out, one with an empty order
\* id, and a body that is not JSON.
IngestSymbols == {"BTC-USD", "btc-usd", "ETH-USD", ""}

IngestSides == {"BUY", "SELL", "buy"}

IngestQuantities == {[num |-> 0], [num |-> MaxAmount], [text |-> "abc"]}

IngestPrices == {[num |-> 0], [num |-> MaxPrice]}

FullBodies(n) ==
  [orderId : {ClientOrderId(n)}, symbol : IngestSymbols, side : IngestSides,
   quantity : IngestQuantities, price : IngestPrices]

Without(body, field) == [k \in DOMAIN body \ {field} |-> body[k]]

\* A body every check of the validation passes.
PlainOrder(n) ==
  [orderId |-> ClientOrderId(n), symbol |-> "BTC-USD", side |-> "BUY",
   quantity |-> [num |-> MaxAmount], price |-> [num |-> MaxPrice]]

RequestBodies(n) ==
  FullBodies(n)
  \cup {Without(PlainOrder(n), required_fields[i]) : i \in 1..Len(required_fields)}
  \cup {With(PlainOrder(n), "orderId", EmptyOrderId)}
  \cup {InvalidJson}

\* What the services do during a request.  For a request that fails
\* validation they are not called, so one environment stands for all.
Environments(n, body) ==
  IF body = InvalidJson \/ ~validate_order(body).is_valid
  THEN {[kinesis_up |-> TRUE, audit |-> "off", now |-> n, uuid |-> uuid4(n)]}
  ELSE [kinesis_up : BOOLEAN, audit : {"off", "ok", "fail"}, now : {n},
        uuid : {uuid4(n)}]

\* One request to the ingest function.
IngestOrder ==
  /\ requests < MaxRequests
  /\ \E body \in RequestBodies(requests + 1) :
       \E env \in Environments(requests + 1, body) :
         \E out \in {ingest_lambda_handler(IngestWorld, [body |-> body], env)} :
           /\ orders_stream' = out.w.orders_stream
           /\ orders_table' = out.w.orders_table
           /\ http_response' = out.response
           /\ requests' = requests + 1
           /\ request' = [event |-> [body |-> body], env |-> env]
           /\ UNCHANGED <<raw_order, validated>>
           /\ UNCHANGED matcher_vars
           /\ UNCHANGED running
           /\ UNCHANGED ws_vars

NextIngest == IngestOrder

SpecIngest == Init /\ [][NextIngest]_vars

\* ---------------------------------------- specification of the validation
\* validate_order on its own: the order is any dict of the six fields a
\* client may send, each of them absent or with one of a few values.
NotCalled == [called |-> FALSE, is_valid |-> FALSE, error_message |-> <<>>]

Absent(value) == [present |-> FALSE, value |-> value]

Present(values) == {[present |-> TRUE, value |-> v] : v \in values}

JsonNumbers(max) ==
  {[num |-> 0], [num |-> 0 - 1], [num |-> max], [text |-> "2"], [text |-> "abc"],
   [text |-> "nan"], [special |-> "NaN"], [special |-> "Infinity"],
   [special |-> "-Infinity"]}

FieldChoices ==
  [orderId : {Absent(EmptyOrderId)} \cup Present({ClientOrderId(1)}),
   symbol : {Absent("")} \cup Present({"BTC-USD", "btc-usd", " BTC-USD ", "   ", ""}),
   side : {Absent("")} \cup Present({"BUY", "SELL", "buy", "sell", "hold"}),
   order_type : {Absent("")} \cup Present({"limit", "LIMIT", "market", "stop_loss"}),
   quantity : {Absent([num |-> 0])} \cup Present(JsonNumbers(MaxAmount)),
   price : {Absent([num |-> 0])} \cup Present(JsonNumbers(MaxPrice))]

\* The dict of the fields that are present.
Dict(c) == [k \in {f \in DOMAIN c : c[f].present} |-> c[k].value]

ValidateOrders == {Dict(c) : c \in FieldChoices}

InitValidate ==
  /\ InitStores
  /\ raw_order \in ValidateOrders
  /\ validated = NotCalled

Validate ==
  /\ ~validated.called
  /\ \E out \in {validate_order(raw_order)} :
       validated' = [called |-> TRUE, is_valid |-> out.is_valid,
                     error_message |-> out.error_message]
  /\ UNCHANGED raw_order
  /\ UNCHANGED <<orders_stream, orders_table, http_response, requests, request>>
  /\ UNCHANGED matcher_vars
  /\ UNCHANGED running
  /\ UNCHANGED ws_vars

NextValidate == Validate

SpecValidate == InitValidate /\ [][NextValidate]_vars

\* --------------------------------------- specification with redelivery
\* The matcher on batches of one record, with sinks that can fail, fed by a
\* queue that delivers again the records reported as failed.  A new order
\* has an id of its own, the next one not yet delivered.
FailedRecords ==
  {[messageId |-> log[i].messageId, body |-> log[i].body] :
     i \in {j \in 1..Len(log) : log[j].raised}}

NewRecords ==
  {[messageId |-> Len(delivered) + 1, body |-> o] :
     o \in LimitOrders(Cardinality(DeliveredIds(delivered)) + 1)}

HandleOne(record, fault) ==
  /\ Len(delivered) < MaxDeliveries
  /\ \E event \in {[Records |-> <<[messageId |-> record.messageId,
                                   body |-> record.body, fault |-> fault]>>]} :
       \E out \in {lambda_handler(World, event)} : Returns(out, event, TRUE)

\* A record is delivered for the first time.
DeliverNew == \E record \in NewRecords : \E fault \in Faults : HandleOne(record, fault)

\* A record whose processing raised is delivered again.
Redeliver == \E record \in FailedRecords : \E fault \in Faults : HandleOne(record, fault)

NextRedelivery == DeliverNew \/ Redeliver

SpecRedelivery == Init /\ [][NextRedelivery]_vars

\* ------------------------------------ specification with invalid orders
\* The matcher on batches of one record whose order the ingest validation
\* would turn down: an amount or a price of zero or below, or a side that is
\* neither BUY nor SELL.  The matcher decodes such a record like any other.
AnyOrders(n) ==
  [orderId : {n} \cap OrderIds, pair : Pairs, side : BookSides,
   amount : {0 - 1, 0, 1, MaxAmount}, price : {0 - 1, 0, 1, MaxPrice}]

Invalid(o) == o.amount <= 0 \/ o.price <= 0 \/ upper(o.side) \notin Sides

\* A record with an order the validation passes.
DeliverValid ==
  \E o \in {x \in AnyOrders(Len(delivered) + 1) : ~Invalid(x)} :
    HandleOne([messageId |-> Len(delivered) + 1, body |-> o], "none")

\* A record with an order the validation turns down.
DeliverInvalid ==
  \E o \in {x \in AnyOrders(Len(delivered) + 1) : Invalid(x)} :
    HandleOne([messageId |-> Len(delivered) + 1, body |-> o], "none")

NextInvalid == DeliverValid \/ DeliverInvalid

SpecInvalid == Init /\ [][NextInvalid]_vars

\* ------------------------------------- specification of the pipeline
\* The ingest function and the matcher together: the orders the ingest
\* function has put on the stream reach the matcher in stream order, one
\* per invocation, with the published Data as the record body.
ConsumeOrder ==
  /\ Len(delivered) < Len(orders_stream)
  /\ \E record \in {orders_stream[Len(delivered) + 1]} :
       \E event \in {[Records |-> <<[messageId |-> record.SequenceNumber,
                                    body |-> record.Data, fault |-> "none"]>>]} :
         \E out \in {lambda_handler(World, event)} : Returns(out, event, TRUE)

NextPipeline == IngestOrder \/ ConsumeOrder

SpecPipeline == Init /\ [][NextPipeline]_vars

\* ------------------------------------------------- WebSocket registry
\* backend/ws_handler/lambda_function.py.  The connections table holds one
\* item per connection id; of an item the model keeps the key, the
\* subscription list and the time of the connect (the TTL goes with it).
ConnectionIds == {"c1", "c2"}

ConnRank(c) == IF c = "c1" THEN 1 ELSE 2

HasItem(table, c) == \E x \in table : x.ConnectionId = c

\* table.put_item(Item=...): the item replaces any item of the same key.
put_item(table, item) ==
  {x \in table : x.ConnectionId # item.ConnectionId} \cup {item}

\* table.delete_item(Key={'ConnectionId': connection_id})
delete_item(table, c) == {x \in table : x.ConnectionId # c}

\* The update adding the symbols to the list the item has.
update_item_extending(table, c, symbols) ==
  IF HasItem(table, c)
  THEN {IF x.ConnectionId = c THEN [x EXCEPT !.Subscriptions = @ \o symbols] ELSE x :
          x \in table}
  ELSE table \cup {[ConnectionId |-> c, Subscriptions |-> symbols]}

\* table.update_item(Key=..., UpdateExpression='SET Subscriptions = :symbols'):
\* sets the attribute of the item and, as DynamoDB does when no item has the
\* key, creates an item of the key and that attribute alone.
update_item(table, c, symbols) ==
  IF HasItem(table, c)
  THEN {IF x.ConnectionId = c THEN [x EXCEPT !.Subscriptions = symbols] ELSE x :
          x \in table}
  ELSE table \cup {[ConnectionId |-> c, Subscriptions |-> symbols]}

\* table.scan(): the items in the order of the table.
RECURSIVE scan(_)
scan(table) ==
  IF table = {} THEN <<>>
  ELSE LET x == CHOOSE y \in table :
                  \A z \in table : ConnRank(y.ConnectionId) <= ConnRank(z.ConnectionId)
       IN <<x>> \o scan(table \ {x})

\* The stores a WebSocket or broadcaster invocation works on, with what the
\* API Gateway does at each connection while it runs.
WsWorld(links) ==
  [connections |-> connections, posted |-> <<>>, links |-> links]

handle_connect(w, connection_id) ==
  [w |-> [w EXCEPT !.connections =
            put_item(@, [ConnectionId |-> connection_id, ConnectedAt |-> "utcnow",
                         Subscriptions |-> <<>>])],
   response |-> [statusCode |-> 200, body |-> <<"Connected">>]]

handle_disconnect(w, connection_id) ==
  [w |-> [w EXCEPT !.connections = delete_item(@, connection_id)],
   response |-> [statusCode |-> 200, body |-> <<"Disconnected">>]]

\* [s.upper() for s in symbols]
upper_all(symbols) == [i \in 1..Len(symbols) |-> upper(symbols[i])]

\* body.get('symbols', [])
symbols_of(body) == IF "symbols" \in DOMAIN body THEN body.symbols ELSE <<>>

\* handle_subscribe once the body is decoded.
subscribe(w, connection_id, symbols) ==
  IF symbols = <<>>
  THEN [w |-> w, response |-> [statusCode |-> 400, body |-> <<"No symbols provided">>]]
  ELSE [w |-> [w EXCEPT !.connections =
                 update_item(@, connection_id, upper_all(symbols))],
        response |-> [statusCode |-> 200,
                      body |-> <<"Subscribed successfully", upper_all(symbols)>>]]

handle_subscribe(w, connection_id, event) ==
  IF event.body = InvalidJson
  THEN [w |-> w, response |-> [statusCode |-> 400, body |-> <<"Invalid JSON">>]]
  ELSE subscribe(w, connection_id, symbols_of(event.body))

handle_default(w, connection_id, event) ==
  [w |-> w,
   response |-> [statusCode |-> 200,
                 body |-> <<"Unknown action. Supported actions: subscribe">>]]

ws_lambda_handler(w, event) ==
  IF event.routeKey = "$connect" THEN handle_connect(w, event.connectionId)
  ELSE IF event.routeKey = "$disconnect" THEN handle_disconnect(w, event.connectionId)
  ELSE IF event.routeKey = "subscribe" THEN handle_subscribe(w, event.connectionId, event)
  ELSE handle_default(w, event.connectionId, event)

\* ------------------------------------------------------- broadcasters
\* backend/trade_broadcaster/lambda_function.py and
\* backend/broadcaster/lambda_function.py.  post_to_connection reaches an
\* open connection, raises GoneException at one that is gone, and raises
\* another error at one that fails otherwise.
Outcomes == {"open", "gone", "error"}

post_to_connection(w, connection_id, data) ==
  [w EXCEPT !.posted = Append(@, [ConnectionId |-> connection_id, Data |-> data,
                                  outcome |-> w.links[connection_id]])]

\* The item deleted after any failed send.
after_post_delete_any(w, connection_id) ==
  IF w.links[connection_id] # "open"
  THEN [w EXCEPT !.connections = delete_item(@, connection_id)]
  ELSE w

\* The except clauses of a send: the item of a connection that is gone is
\* deleted, any other error is only logged.
after_post(w, connection_id) ==
  IF w.links[connection_id] = "gone"
  THEN [w EXCEPT !.connections = delete_item(@, connection_id)]
  ELSE w

send_message_to_connection(w, connection_id, message) ==
  [w |-> after_post(post_to_connection(w, connection_id, message), connection_id),
   ok |-> w.links[connection_id] = "open"]

\* Attr('Subscriptions').contains(symbol) on a list attribute.
contains(subscriptions, symbol) ==
  \E i \in 1..Len(subscriptions) : subscriptions[i] = symbol

get_subscribed_connections(table, symbol) ==
  scan({x \in table : contains(x.Subscriptions, symbol)})

\* The keys of the trade that broadcast_trade copies into the message.
message_keys == {"trade_id", "symbol", "price", "quantity", "total_value", "timestamp"}

trade_message(trade) ==
  [type |-> "trade", data |-> [k \in message_keys |-> trade[k]]]

Counted(w, sent, failed) == [w |-> w, sent |-> sent, failed |-> failed, raised |-> FALSE]

\* The loop of broadcast_trade over the connections it scanned.
RECURSIVE send_to_each(_, _, _, _, _)
send_to_each(w, conns, message, sent_count, failed_count) ==
  IF conns = <<>> THEN Counted(w, sent_count, failed_count)
  ELSE IF w.links[Head(conns).ConnectionId] = "open"
  THEN send_to_each(send_message_to_connection(w, Head(conns).ConnectionId, message).w,
                    Tail(conns), message, sent_count + 1, failed_count)
  ELSE send_to_each(send_message_to_connection(w, Head(conns).ConnectionId, message).w,
                    Tail(conns), message, sent_count, failed_count + 1)

\* broadcast_trade once the subscribed connections are read: building the
\* message raises KeyError when the trade lacks one of its keys.
broadcast_to(w, trade, conns) ==
  IF conns = <<>> THEN Counted(w, 0, 0)
  ELSE IF message_keys \ DOMAIN trade # {}
  THEN [w |-> w, sent |-> 0, failed |-> 0, raised |-> TRUE]
  ELSE send_to_each(w, conns, trade_message(trade), 0, 0)

\* The trade sent to every connection of the table.
broadcast_trade_to_all(w, trade) ==
  IF "symbol" \notin DOMAIN trade \/ trade.symbol = ""
  THEN Counted(w, 0, 0)
  ELSE broadcast_to(w, trade, scan(w.connections))

\* trade.get('symbol') is None for a trade without the key, and "not symbol"
\* holds for None and for the empty string.
broadcast_trade(w, trade) ==
  IF "symbol" \notin DOMAIN trade \/ trade.symbol = ""
  THEN Counted(w, 0, 0)
  ELSE broadcast_to(w, trade, get_subscribed_connections(w.connections, trade.symbol))

\* One turn of the trade broadcaster's loop: a body that is not JSON and an
\* exception of broadcast_trade are caught and logged.
broadcast_record(w, record) ==
  IF record.body = InvalidJson THEN Counted(w, 0, 0) ELSE broadcast_trade(w, record.body)

RECURSIVE broadcast_records(_, _, _, _)
broadcast_records(w, records, total_sent, total_failed) ==
  IF records = <<>>
  THEN [w |-> w, total_sent |-> total_sent, total_failed |-> total_failed]
  ELSE broadcast_records(broadcast_record(w, Head(records)).w, Tail(records),
                         total_sent + broadcast_record(w, Head(records)).sent,
                         total_failed + broadcast_record(w, Head(records)).failed)

trade_broadcaster_response(out, event) ==
  [w |-> out.w,
   response |-> [statusCode |-> 200,
                 body |-> [message |-> Len(event.Records),
                           total_sent |-> out.total_sent,
                           total_failed |-> out.total_failed]]]

trade_broadcaster_lambda_handler(w, event) ==
  trade_broadcaster_response(broadcast_records(w, event.Records, 0, 0), event)

\* The inner loop of the broadcaster: every scanned item is posted to.
RECURSIVE post_to_each(_, _, _)
post_to_each(w, items, message) ==
  IF items = <<>> THEN w
  ELSE post_to_each(
         after_post(post_to_connection(w, Head(items).ConnectionId, message),
                    Head(items).ConnectionId),
         Tail(items), message)

\* The broadcaster's loop over the records: a body that is not JSON is
\* caught and logged, any other is sent to every item of a scan of the table.
RECURSIVE relay_records(_, _)
relay_records(w, records) ==
  IF records = <<>> THEN w
  ELSE IF Head(records).body = InvalidJson THEN relay_records(w, Tail(records))
  ELSE relay_records(
         post_to_each(w, scan(w.connections),
                      [type |-> "trade", data |-> Head(records).body]),
         Tail(records))

broadcaster_lambda_handler(w, event) ==
  [w |-> relay_records(w, event.Records), response |-> [statusCode |-> 200]]

\* --------------------------------------- specification of the WebSocket
\* The WebSocket handler and the two broadcasters on one connections table.
\* A client connects, subscribes, sends an unknown action or disconnects; a
\* broadcaster is given one record, or two of which the second is a trade it
\* can send; a record is a trade as the trade broadcaster documents it, a
\* trade as the matcher publishes it, or text that is not JSON, while every
\* connection is open, gone or failing.
SubscribeBodies ==
  {[symbols |-> <<"BTC-USD">>], [symbols |-> <<"btc-usd">>],
   [symbols |-> <<"ETH-USD", "BTC-USD">>], [symbols |-> <<>>],
   [action |-> "subscribe"], InvalidJson}

WsEvents ==
  [routeKey : {"subscribe"}, connectionId : ConnectionIds, body : SubscribeBodies]
  \cup [routeKey : {"$connect", "$disconnect", "$default"},
        connectionId : ConnectionIds, body : {[action |-> "ping"]}]

AllOpen == [c \in ConnectionIds |-> "open"]

\* A trade as the trade broadcaster's docstring has it.
DocumentedTrade(symbol) ==
  [trade_id |-> 1, symbol |-> symbol, price |-> MaxPrice, quantity |-> MaxAmount,
   total_value |-> MaxPrice * MaxAmount, timestamp |-> 1]

\* A trade as execute_trade of the matcher publishes it.
MatcherTrade ==
  [tradeId |-> 1, pair |-> "BTC-USD", price |-> MaxPrice, amount |-> MaxAmount,
   buyOrderId |-> 1, sellOrderId |-> MaxOrderId]

TradeBodies ==
  {DocumentedTrade("BTC-USD"), DocumentedTrade("ETH-USD"), MatcherTrade, InvalidJson}

TradeEvents ==
  {[Records |-> <<[body |-> t]>>] : t \in TradeBodies}
  \cup {[Records |-> <<[body |-> t], [body |-> DocumentedTrade("BTC-USD")]>>] :
          t \in TradeBodies}

\* An invocation ends: the table is what the handler left.
WsReturns(out, handler, event, links) ==
  /\ connections' = out.w.connections
  /\ posted' = out.w.posted
  /\ ws_response' = out.response
  /\ ws_event' = [handler |-> handler, event |-> event, links |-> links,
                  before |-> connections]
  /\ consumed' = IF handler = "trade_queue" THEN consumed + 1 ELSE consumed
  /\ UNCHANGED matcher_vars
  /\ UNCHANGED ingest_vars
  /\ UNCHANGED running

\* One event of the WebSocket API.
WebSocketEvent ==
  \E event \in WsEvents :
    \E out \in {ws_lambda_handler(WsWorld(AllOpen), event)} :
      WsReturns(out, "ws_handler", event, AllOpen)

\* One invocation of the trade broadcaster.
TradeBroadcast ==
  \E event \in TradeEvents :
    \E links \in [ConnectionIds -> Outcomes] :
      \E out \in {trade_broadcaster_lambda_handler(WsWorld(links), event)} :
        WsReturns(out, "trade_broadcaster", event, links)

\* One invocation of the broadcaster.
Broadcast ==
  \E event \in TradeEvents :
    \E links \in [ConnectionIds -> Outcomes] :
      \E out \in {broadcaster_lambda_handler(WsWorld(links), event)} :
        WsReturns(out, "broadcaster", event, links)

NextWebSocket == WebSocketEvent \/ TradeBroadcast \/ Broadcast

SpecWebSocket == Init /\ [][NextWebSocket]_vars

\* ------------------------------------ specification of the trade fan-out
\* The matcher, the WebSocket handler and the trade broadcaster together:
\* the trades the matcher has put on the trades queue reach the trade
\* broadcaster in queue order, one per invocation, with the published
\* MessageBody as the record body, while every connection is open.  The
\* orders are of one price and one amount, so that every two of opposite
\* sides trade.
DeliverOrder ==
  \E o \in {x \in LimitOrders(Len(delivered) + 1) : x.price = 1 /\ x.amount = 1} :
    HandleOne([messageId |-> Len(delivered) + 1, body |-> o], "none")

ConsumeTrade ==
  /\ consumed < Len(trades_queue)
  /\ \E event \in {[Records |-> <<[body |-> trades_queue[consumed + 1].MessageBody]>>]} :
       \E out \in {trade_broadcaster_lambda_handler(WsWorld(AllOpen), event)} :
         WsReturns(out, "trade_queue", event, AllOpen)

NextBroadcast == DeliverOrder \/ WebSocketEvent \/ ConsumeTrade

SpecBroadcast == Init /\ [][NextBroadcast]_vars

\* ------------------------------------------------------------ properties
RECURSIVE SumTrades(_)
SumTrades(trades) ==
  IF trades = <<>> THEN 0 ELSE Head(trades).amount + SumTrades(Tail(trades))

RECURSIVE SumAmounts(_)
SumAmounts(entries) ==
  IF entries = {} THEN 0
  ELSE LET e == CHOOSE x \in entries : TRUE
       IN json_loads(e.member).amount + SumAmounts(entries \ {e})

EntryId(e) == json_loads(e.member).orderId

\* Every entry of every book that carries this order id.
EntriesOf(books, id) ==
  UNION {{e \in books[k] : EntryId(e) = id} : k \in Keys}

TradedQty(table, id) ==
  LET Names(t) == t.buyOrderId = id \/ t.sellOrderId = id
  IN SumTrades(SelectSeq(table, Names))

RestingQty(books, id) == SumAmounts(EntriesOf(books, id))

Submitted(id) ==
  delivered[CHOOSE i \in 1..Len(delivered) : delivered[i].orderId = id]

\* Position at which an order id was first delivered (its acceptance).
AcceptedAt(id) ==
  CHOOSE i \in 1..Len(delivered) :
    /\ delivered[i].orderId = id
    /\ \A j \in 1..(i - 1) : delivered[j].orderId # id

\* Every record so far carried an order id of its own.
NoRedelivery ==
  \A i, j \in 1..Len(delivered) :
    i # j => delivered[i].orderId # delivered[j].orderId

LastOrder == delivered[Len(delivered)]

Opposite(side) == IF side = "BUY" THEN "SELL" ELSE "BUY"

\* Does a taker at this limit cross a resting entry of the opposite side?
Crosses(side, limit, e) == IF side = "BUY" THEN e.score <= limit ELSE e.score >= limit

\* C1: conservation of quantity: for every order, the quantities of the
\* trades that name it plus the quantity resting under its id equal the
\* quantity it was submitted with.
C1_Conservation ==
  NoRedelivery =>
    \A id \in DeliveredIds(delivered) :
      TradedQty(trades_table, id) + RestingQty(zsets, id) = Submitted(id).amount

\* C2: every trade executes at the maker's price: the limit price of the
\* resting order the trade names on the maker's side, whatever the taker's
\* own limit is.
C2_TradeAtMakerPrice ==
  \A i \in 1..Len(fills) :
    /\ trades_table[fills[i].trade].price = Submitted(fills[i].maker).price
    /\ trades_table[fills[i].trade].price = fills[i].makerEntry.score

\* C2 witness: a trade made below the taker's limit, at the maker's price.
C2_Witness ==
  \E i \in 1..Len(fills) :
    /\ fills[i].takerSide = "BUY"
    /\ fills[i].takerPrice > Submitted(fills[i].maker).price
    /\ trades_table[fills[i].trade].price = Submitted(fills[i].maker).price

\* What the last record traded, and the liquidity that crossed it before.
LastTraded ==
  LET Mine(t) == t.tradeId > pre.trades
  IN SumTrades(SelectSeq(trades_table, Mine))

LastCrossing ==
  {e \in pre.zsets[orderbook_key(LastOrder.pair, Opposite(LastOrder.side))] :
     Crosses(LastOrder.side, LastOrder.price, e)}

\* C3: walk the book: a taker trades with successive best makers while it
\* has quantity left and still crosses, one trade per maker; only what is
\* left after the last crossing maker rests.
C3_WalkTheBook ==
  (delivered # <<>> /\ NoRedelivery) =>
    /\ LastTraded = min(LastOrder.amount, SumAmounts(LastCrossing))
    /\ \A e \in zsets[orderbook_key(LastOrder.pair, LastOrder.side)] :
         EntryId(e) = LastOrder.orderId =>
           \A m \in zsets[orderbook_key(LastOrder.pair, Opposite(LastOrder.side))] :
             ~Crosses(LastOrder.side, LastOrder.price, m)

\* C4: best-price priority: the maker of every trade is the best-priced
\* entry of the opposite book at that moment: no resting sell is cheaper than
\* the sell a buy taker trades with, no resting buy dearer than the buy a
\* sell taker trades with.
C4_BestPricePriority ==
  \A i \in 1..Len(fills) :
    \A e \in fills[i].opposite :
      IF fills[i].takerSide = "BUY"
      THEN fills[i].makerEntry.score <= e.score
      ELSE fills[i].makerEntry.score >= e.score

\* C4 witness: a trade whose maker was chosen ahead of a worse-priced entry
\* that crossed the taker as well.
C4_Witness ==
  \E i \in 1..Len(fills) :
    \E e \in fills[i].opposite :
      /\ Crosses(fills[i].takerSide, fills[i].takerPrice, e)
      /\ e.score # fills[i].makerEntry.score

\* C5: time priority: of the resting orders at the maker's price, none was
\* accepted before the maker a trade is made with.
C5_TimePriority ==
  \A i \in 1..Len(fills) :
    \A e \in fills[i].opposite :
      e.score = fills[i].makerEntry.score =>
        AcceptedAt(fills[i].maker) <= AcceptedAt(EntryId(e))

\* C6: idempotence: an invocation that delivers only records whose order ids
\* were processed before changes no book, writes and publishes no trade, and
\* reports no failed item.
C6_Idempotence ==
  [][(\A i \in (Len(delivered) + 1)..Len(delivered') :
        delivered'[i].orderId \in DeliveredIds(delivered))
     => /\ zsets' = zsets
        /\ trades_table' = trades_table
        /\ trades_queue' = trades_queue
        /\ response'.batchItemFailures = <<>>]_vars

\* C7: for every trade, the buy order's limit is at or above the trade price
\* and the sell order's limit is at or below it.
C7_LimitsRespected ==
  \A i \in 1..Len(trades_table) :
    /\ Submitted(trades_table[i].buyOrderId).price >= trades_table[i].price
    /\ Submitted(trades_table[i].sellOrderId).price <= trades_table[i].price

\* C7 witness: a sell taker traded above its own limit, at the buy's price.
C7_Witness ==
  \E i \in 1..Len(fills) :
    /\ fills[i].takerSide = "SELL"
    /\ Submitted(trades_table[fills[i].trade].sellOrderId).price
         < trades_table[fills[i].trade].price
    /\ Submitted(trades_table[fills[i].trade].buyOrderId).price
         = trades_table[fills[i].trade].price

\* What an order still had open after the first n trades.
OpenQty(id, n) ==
  Submitted(id).amount - TradedQty(SubSeq(trades_table, 1, n), id)

\* C8: every trade's quantity is the minimum of what the taker and the maker
\* still had open when they met; it is positive and exceeds neither.
C8_TradeQuantity ==
  NoRedelivery =>
    \A i \in 1..Len(fills) :
      LET t == trades_table[fills[i].trade]
      IN /\ t.amount = min(OpenQty(fills[i].taker, fills[i].trade - 1),
                           OpenQty(fills[i].maker, fills[i].trade - 1))
         /\ t.amount > 0

RECURSIVE SumOpen(_, _)
SumOpen(ids, n) ==
  IF ids = {} THEN 0
  ELSE LET id == CHOOSE x \in ids : TRUE
       IN OpenQty(id, n) + SumOpen(ids \ {id}, n)

\* The makers the last record traded with.
LastMakers == {fills[i].maker : i \in {j \in 1..Len(fills) : fills[j].trade > pre.trades}}

\* C9: partial fill, taker rests: a taker larger than the liquidity that
\* crosses it is, after matching, in its own side's book once, at its own
\* limit, with its submitted quantity less what it traded; every maker it
\* consumed in full has left the book.
C9_PartialFillTakerRests ==
  (/\ delivered # <<>>
   /\ NoRedelivery
   /\ LastCrossing # {}
   /\ LastOrder.amount > SumOpen({EntryId(e) : e \in LastCrossing}, pre.trades))
  => /\ EntriesOf(zsets, LastOrder.orderId) =
          {[member |-> json_dumps([LastOrder EXCEPT !.amount = @ - LastTraded]),
            score |-> LastOrder.price]}
     /\ EntriesOf(zsets, LastOrder.orderId) \subseteq
          zsets[orderbook_key(LastOrder.pair, LastOrder.side)]
     /\ \A m \in LastMakers :
          OpenQty(m, Len(trades_table)) = 0 => EntriesOf(zsets, m) = {}

\* C10: no cross: an order that crosses no resting order of the opposite
\* side makes no trade, no durable write and no publish, is added to its own
\* side's book with its full quantity, and leaves the opposite side as it was.
C10_NoCross ==
  (delivered # <<>> /\ LastCrossing = {}) =>
    LET own == orderbook_key(LastOrder.pair, LastOrder.side)
        opp == orderbook_key(LastOrder.pair, Opposite(LastOrder.side))
    IN /\ Len(trades_table) = pre.trades
       /\ Len(trades_queue) = pre.queue
       /\ zsets[opp] = pre.zsets[opp]
       /\ zsets[own] = pre.zsets[own] \cup
            {[member |-> json_dumps(LastOrder), score |-> LastOrder.price]}

\* C10 witness: an order rested next to a non-empty opposite side that it
\* did not cross.
C10_Witness ==
  /\ delivered # <<>>
  /\ LastCrossing = {}
  /\ pre.zsets[orderbook_key(LastOrder.pair, Opposite(LastOrder.side))] # {}
  /\ [member |-> json_dumps(LastOrder), score |-> LastOrder.price]
       \in zsets[orderbook_key(LastOrder.pair, LastOrder.side)]
  /\ Len(trades_table) = pre.trades

\* C11: a filled order is never resting and every resting order has a
\* positive quantity: an order whose trades sum to the quantity it was
\* submitted with has no entry in any book, and no entry of any book carries
\* an amount of zero or less.
C11_FilledNeverRests ==
  NoRedelivery =>
    /\ \A k \in Keys : \A e \in zsets[k] : json_loads(e.member).amount > 0
    /\ \A id \in DeliveredIds(delivered) :
         OpenQty(id, Len(trades_table)) <= 0 => EntriesOf(zsets, id) = {}

\* ------------------------------------------ properties of one invocation
\* The log entry of the i-th record of the last invocation, and the stores as
\* that record left them.
LastLog(i) == log[Len(log) - Len(invoked.Records) + i]

After(i) ==
  IF i < Len(invoked.Records) THEN LastLog(i + 1).pre ELSE Snapshot(World)

\* Was the i-th record of the last invocation reported as failed?
Failed(i) ==
  \E j \in 1..Len(response.batchItemFailures) :
    response.batchItemFailures[j].itemIdentifier = invoked.Records[i].messageId

IsOrder(body) == "orderId" \in DOMAIN body
IsMarket(body) == IsOrder(body) /\ "price" \notin DOMAIN body
IsLimit(body) == IsOrder(body) /\ "price" \in DOMAIN body

\* The records of the last invocation, when its loop ran.
Handled == IF invoked.redis_up THEN 1..Len(invoked.Records) ELSE {}

\* The entries of the opposite side that were resting before the i-th record.
OppositeBefore(i) ==
  LastLog(i).pre.zsets[orderbook_key(LastLog(i).body.pair,
                                     Opposite(upper(LastLog(i).body.side)))]

\* C12: a market order (no price) that finds the opposite book empty makes
\* no trade, is added to no book, and its record is acknowledged: it is not
\* among the batchItemFailures.
C12_MarketOrderEmptyBook ==
  \A i \in Handled :
    (IsMarket(LastLog(i).body) /\ OppositeBefore(i) = {}) =>
      /\ After(i) = LastLog(i).pre
      /\ ~Failed(i)

\* C13: a market order crosses the best opposite maker whatever the maker's
\* price: with a non-empty opposite book it trades, and no entry for it rests
\* in any book afterwards.
C13_MarketOrderCrosses ==
  \A i \in Handled :
    (IsMarket(LastLog(i).body) /\ OppositeBefore(i) # {}) =>
      /\ After(i).trades > LastLog(i).pre.trades
      /\ EntriesOf(After(i).zsets, LastLog(i).body.orderId) = {}

\* The record with which the taker of a published trade was delivered.
TakerRecord(message) == AcceptedAt(fills[message.MessageBody.tradeId].taker)

\* C14: per-symbol output ordering: the trade events of one pair are in the
\* queue in the order in which their takers were processed, and every trade
\* event carries the pair of its two orders as its message group.
C14_OutputOrdering ==
  /\ \A i \in 1..Len(trades_queue) :
       /\ trades_queue[i].MessageGroupId = trades_queue[i].MessageBody.pair
       /\ trades_queue[i].MessageGroupId =
            Submitted(trades_queue[i].MessageBody.buyOrderId).pair
       /\ trades_queue[i].MessageGroupId =
            Submitted(trades_queue[i].MessageBody.sellOrderId).pair
  /\ \A i, j \in 1..Len(trades_queue) :
       (i < j /\ trades_queue[i].MessageGroupId = trades_queue[j].MessageGroupId)
         => TakerRecord(trades_queue[i]) < TakerRecord(trades_queue[j])

\* C14 witness: two trade events of the ETH-USD pair in the queue, the taker
\* of the first processed before the taker of the second.
C14_Witness ==
  /\ Len(trades_queue) = 2
  /\ trades_queue[1].MessageGroupId = "ETH-USD"
  /\ trades_queue[2].MessageGroupId = "ETH-USD"
  /\ TakerRecord(trades_queue[1]) < TakerRecord(trades_queue[2])

\* The entries that cross the i-th record of the last invocation, a limit order.
CrossingBefore(i) ==
  {e \in OppositeBefore(i) :
     Crosses(upper(LastLog(i).body.side), LastLog(i).body.price, e)}

\* Processing the i-th record of the last invocation raises an exception: its
\* body is not JSON, or the order has no price, or it crosses a resting entry
\* and the durable write or the publish of the trade fails.
Raises(i) ==
  \/ ~IsOrder(LastLog(i).body)
  \/ IsMarket(LastLog(i).body)
  \/ IsLimit(LastLog(i).body) /\ LastLog(i).fault # "none" /\ CrossingBefore(i) # {}

RECURSIVE FailureIds(_)
FailureIds(failures) ==
  IF failures = <<>> THEN {}
  ELSE {Head(failures).itemIdentifier} \cup FailureIds(Tail(failures))

C18_DecodeFailure ==
  \A i \in Handled :
    LastLog(i).body = InvalidJson =>
      /\ Failed(i)
      /\ After(i) = LastLog(i).pre
      /\ ~response.raised
      /\ \A j \in Handled :
           (j > i /\ IsLimit(LastLog(j).body) /\ LastLog(j).fault = "none")
             => (~Failed(j) /\ After(j) # LastLog(j).pre)

\* C18 witness: a batch of an undecodable record followed by a limit order
\* that was added to its book.
C18_Witness ==
  /\ invoked.redis_up
  /\ Len(invoked.Records) = 2
  /\ LastLog(1).body = InvalidJson
  /\ Failed(1)
  /\ IsLimit(LastLog(2).body)
  /\ ~Failed(2)
  /\ After(2).zsets # LastLog(2).pre.zsets

C20_RedisUnreachable ==
  [][~invoked'.redis_up =>
       /\ response'.raised
       /\ response'.batchItemFailures = <<>>
       /\ log' = log
       /\ zsets' = zsets
       /\ lastprice' = lastprice
       /\ trades_table' = trades_table
       /\ trades_queue' = trades_queue
       /\ fills' = fills]_vars

\* C20 witness: an invocation raised without reaching Redis although its
\* first record is a limit order that crosses a resting entry.
C20_Witness ==
  /\ ~invoked.redis_up
  /\ response.raised
  /\ invoked.Records # <<>>
  /\ IsLimit(invoked.Records[1].body)
  /\ \E e \in zsets[orderbook_key(invoked.Records[1].body.pair,
                                  Opposite(invoked.Records[1].body.side))] :
       Crosses(invoked.Records[1].body.side, invoked.Records[1].body.price, e)
  /\ trades_table = <<>>

\* C15: per-symbol inbound ordering: all the orders the ingest function
\* accepts for one symbol, buys and sells alike, are put on the orders stream
\* under the same ordering key.
C15_InboundOrderingKey ==
  \A i, j \in 1..Len(orders_stream) :
    orders_stream[i].Data.symbol = orders_stream[j].Data.symbol
      => orders_stream[i].PartitionKey = orders_stream[j].PartitionKey

\* No trade so far left a part of its maker's entry behind.
NoPartialMaker ==
  \A i \in 1..Len(fills) :
    fills[i].amount >= json_loads(fills[i].makerEntry.member).amount

\* C16: single writer per symbol: with two invocations at work on one pair,
\* a resting order is never matched by the two takers for more than the
\* quantity it has.  (Runs in which a maker was filled in part are left out:
\* there the entries of the book are wrong already without any concurrency.)
C16_SingleWriter ==
  NoPartialMaker =>
    \A id \in DeliveredIds(delivered) :
      TradedQty(trades_table, id) <= Submitted(id).amount

\* ------------------------------------------- properties of the validation
\* The fields an error message names.
FieldsNamed(message) ==
  CASE Len(message) = 2 -> {message[2]}
    [] message = <<"side must be 'BUY' or 'SELL'">> -> {"side"}
    [] message = <<"quantity and price must be numeric">> -> {"quantity", "price"}
    [] message = <<"quantity must be positive">> -> {"quantity"}
    [] message = <<"price must be positive">> -> {"price"}
    [] message = <<"symbol must be a non-empty string">> -> {"symbol"}
    [] OTHER -> {}

Rejected == validated.called /\ ~validated.is_valid

RejectedNaming(field) == Rejected /\ field \in FieldsNamed(validated.error_message)

\* A limit order that every check passes, with an order id of its own.
PlainLimitOrder ==
  [orderId |-> ClientOrderId(1), symbol |-> "BTC-USD", side |-> "BUY",
   order_type |-> "limit", quantity |-> [num |-> MaxAmount],
   price |-> [num |-> MaxPrice]]

\* The order is the plain limit order but for the fields listed, which it
\* may lack or carry with another value.
PlainBut(fields) ==
  \A k \in DOMAIN PlainLimitOrder \ fields :
    k \in DOMAIN raw_order /\ raw_order[k] = PlainLimitOrder[k]

Has(field, values) == field \in DOMAIN raw_order /\ raw_order[field] \in values

\* C21: the validation requires a price exactly of a limit order: a market
\* order without a price is valid, a limit order without a price is rejected
\* with an error that names price, and an order whose order_type is neither
\* limit nor market is rejected with an error that names order_type.
C21_RequiredFields ==
  validated.called /\ PlainBut({"order_type", "price"}) =>
    /\ Has("order_type", {"market"}) /\ "price" \notin DOMAIN raw_order
         => validated.is_valid
    /\ Has("order_type", {"limit", "LIMIT"}) /\ "price" \notin DOMAIN raw_order
         => RejectedNaming("price")
    /\ Has("order_type", {"stop_loss"}) /\ Has("price", {PlainLimitOrder.price})
         => RejectedNaming("order_type")

\* C22: side and order_type are accepted in either case: with every other
\* field valid, the sides buy, BUY, sell, SELL and the order types limit and
\* LIMIT are valid, and any other side is rejected with an error that names
\* side.
C22_CaseInsensitive ==
  validated.called /\ PlainBut({"side", "order_type"})
  /\ "side" \in DOMAIN raw_order /\ Has("order_type", {"limit", "LIMIT"}) =>
    IF raw_order.side \in {"buy", "BUY", "sell", "SELL"}
    THEN validated.is_valid
    ELSE RejectedNaming("side")

\* A positive finite number, given as a number or as the text of one.
PositiveFinite(v) == float(v).class = "finite" /\ float(v).num > 0

\* C23: with every other field valid, an order is valid exactly when its
\* quantity and its price are positive finite numbers, native or as numeric
\* strings: NaN, the infinities, zero, negatives and non-numeric values are
\* rejected.
C23_PositiveFinite ==
  validated.called /\ PlainBut({"quantity", "price"})
  /\ "quantity" \in DOMAIN raw_order /\ "price" \in DOMAIN raw_order =>
    (validated.is_valid <=>
       PositiveFinite(raw_order.quantity) /\ PositiveFinite(raw_order.price))

\* A value the validation itself turns down: not numeric, or not above zero.
TurnedDown(v) == ~IsNumeric(v) \/ le_zero(float(v))

\* C25: the checks run in a fixed order and each has an error of its own:
\* with every other field valid, an order whose quantity is turned down is
\* rejected with an error that names the quantity alone, and one whose
\* quantity passes and whose price is turned down with an error that names
\* the price alone.
C25_DistinctErrors ==
  validated.called /\ PlainBut({"quantity", "price"})
  /\ "quantity" \in DOMAIN raw_order /\ "price" \in DOMAIN raw_order =>
    /\ TurnedDown(raw_order.quantity)
         => Rejected /\ FieldsNamed(validated.error_message) = {"quantity"}
    /\ ~TurnedDown(raw_order.quantity) /\ TurnedDown(raw_order.price)
         => Rejected /\ FieldsNamed(validated.error_message) = {"price"}

\* ----------------------------------------------- properties of the ingest
LastBody == request.event.body

LastEnv == request.env

\* The last request carried an order, and the validation passed it.
LastValid ==
  requests > 0 /\ LastBody # InvalidJson /\ validate_order(LastBody).is_valid

\* C24: an order that is valid but for its missing order id is accepted: the
\* response is 200, and the order is on the stream under the generated id
\* the response returns.
C24_GeneratedOrderId ==
  /\ requests > 0
  /\ LastBody # InvalidJson
  /\ "orderId" \notin DOMAIN LastBody
  /\ validate_order(With(LastBody, "orderId", ClientOrderId(requests))).is_valid
  /\ LastEnv.kinesis_up
  => /\ http_response.statusCode = 200
     /\ orders_stream # <<>>
     /\ orders_stream[Len(orders_stream)].Data.orderId = http_response.body.orderId

\* The symbol in upper case, without the whitespace around it.
CanonicalSymbol(s) ==
  CASE strip(s) = "btc-usd" -> "BTC-USD"
    [] OTHER -> strip(s)

\* C26: symbols are canonicalized before routing: no published order has a
\* symbol that is empty once trimmed, and two published orders whose symbols
\* differ only in case or in the whitespace around them are published under
\* the same symbol.
C26_CanonicalSymbol ==
  \A i, j \in 1..Len(orders_stream) :
    /\ strip(orders_stream[i].Data.symbol) # ""
    /\ CanonicalSymbol(orders_stream[i].Data.symbol)
         = CanonicalSymbol(orders_stream[j].Data.symbol)
       => /\ orders_stream[i].Data.symbol = orders_stream[j].Data.symbol
          /\ orders_stream[i].PartitionKey[1] = orders_stream[j].PartitionKey[1]

\* C27: a request whose body is not JSON, or whose order fails the
\* validation, is answered 400, and neither the stream nor the audit table
\* changes.
C27_InvalidNeverPublished ==
  [][requests' = requests + 1
     /\ (request'.event.body = InvalidJson
         \/ ~validate_order(request'.event.body).is_valid)
     => /\ http_response'.statusCode = 400
        /\ orders_stream' = orders_stream
        /\ orders_table' = orders_table]_vars

C27_Witness ==
  /\ requests > 0
  /\ LastBody # InvalidJson
  /\ ~validate_order(LastBody).is_valid
  /\ http_response.statusCode = 400
  /\ Len(orders_stream) = 1
  /\ Len(orders_table) = 1

\* The positions of the stream that hold an order with this id.
PublishedAt(stream, id) == {i \in 1..Len(stream) : stream[i].Data.orderId = id}

\* C28: when the publish succeeds and the audit write fails, the request is
\* still answered 200 with the order id and the sequence number, the order
\* is on the stream exactly once, and the audit table has no item of it.
C28_AuditFailure ==
  [][requests' = requests + 1
     /\ request'.env.kinesis_up
     /\ request'.env.audit = "fail"
     => /\ http_response'.statusCode = 200
        /\ orders_stream' # <<>>
        /\ SubSeq(orders_stream', 1, Len(orders_stream')  - 1) = orders_stream
        /\ http_response'.body.sequenceNumber
             = orders_stream'[Len(orders_stream')].SequenceNumber
        /\ PublishedAt(orders_stream', http_response'.body.orderId)
             = {Len(orders_stream')}
        /\ orders_table' = orders_table]_vars

C28_Witness ==
  /\ LastValid
  /\ LastEnv.kinesis_up
  /\ LastEnv.audit = "fail"
  /\ http_response.statusCode = 200
  /\ Len(orders_stream) = 2
  /\ PublishedAt(orders_stream, http_response.body.orderId) = {2}
  /\ Len(orders_table) = 1

\* The audit item is of an order on the stream, under its sequence number.
Published(stream, item) ==
  \E i \in 1..Len(stream) :
    /\ stream[i].SequenceNumber = item.KinesisSequenceNumber
    /\ stream[i].Data.orderId = item.OrderId

\* C29: when the publish fails the request is answered 500 and no audit item
\* is written; every item of the audit table has status PENDING and is of an
\* order that was published.
C29_PublishFailure ==
  [][/\ requests' = requests + 1
        /\ request'.event.body # InvalidJson
        /\ validate_order(request'.event.body).is_valid
        /\ ~request'.env.kinesis_up
        => /\ http_response'.statusCode = 500
           /\ orders_stream' = orders_stream
           /\ orders_table' = orders_table
     /\ \A i \in 1..Len(orders_table') :
          /\ orders_table'[i].Status = "PENDING"
          /\ Published(orders_stream', orders_table'[i])]_vars

C29_Witness ==
  /\ LastValid
  /\ ~LastEnv.kinesis_up
  /\ LastEnv.audit = "ok"
  /\ http_response.statusCode = 500
  /\ Len(orders_stream) = 1
  /\ Len(orders_table) = 1

\* -------------------------------------------------- properties of the books
\* C30: each resting order is held exactly once: while no order is delivered
\* twice, every order id is in at most one entry of at most one side's book;
\* the entry of a maker filled in part replaces the entry it had.
C30_HeldOnce ==
  NoRedelivery =>
    \A id \in OrderIds : Cardinality(EntriesOf(zsets, id)) <= 1

\* C31: the book is never left crossed: while no order is delivered twice,
\* on every pair the price of every resting buy is strictly below the price
\* of every resting sell.
C31_NeverCrossed ==
  NoRedelivery =>
    \A p \in AllPairs :
      \A b \in zsets[orderbook_key(p, "BUY")] :
        \A s \in zsets[orderbook_key(p, "SELL")] : b.score < s.score

\* -------------------------------------------- properties of redelivery
\* The trades a sequence holds of one buy order with one sell order.
TradesOf(trades, buy, sell) ==
  {i \in 1..Len(trades) : trades[i].buyOrderId = buy /\ trades[i].sellOrderId = sell}

QueuedTrades == [i \in 1..Len(trades_queue) |-> trades_queue[i].MessageBody]

\* Every record whose processing raised was the next one delivered.
RedeliveredAtOnce ==
  \A i \in 1..Len(log) :
    log[i].raised /\ i < Len(log) => log[i + 1].messageId = log[i].messageId

\* C32: redelivery after a failure in the middle of a record duplicates no
\* trade: while every failed record is delivered again before any other and
\* no maker is filled in part, the trades table and the trades queue hold at
\* most one trade of any two orders, and the trades recorded for an order
\* never sum to more than the quantity it was submitted with.
C32_RedeliveryNoDuplicate ==
  NoPartialMaker /\ RedeliveredAtOnce =>
    /\ \A b, s \in OrderIds :
         /\ Cardinality(TradesOf(trades_table, b, s)) <= 1
         /\ Cardinality(TradesOf(QueuedTrades, b, s)) <= 1
    /\ \A id \in DeliveredIds(delivered) :
         TradedQty(trades_table, id) <= Submitted(id).amount

\* ----------------------------------------------- properties of two pairs
\* The pairs of the orders an invocation was given.
PairsOf(records) == {records[i].body.pair : i \in 1..Len(records)}

\* C33: cross-symbol isolation: an invocation changes the books and the
\* last-trade price of the pairs of its orders only, and every trade it
\* writes is of the pair that both of its orders were submitted for.
C33_CrossSymbolIsolation ==
  [][/\ \A p \in AllPairs \ PairsOf(invoked'.Records) :
          /\ \A sd \in Sides : zsets'[<<p, sd>>] = zsets[<<p, sd>>]
          /\ lastprice'[p] = lastprice[p]
     /\ \A i \in 1..Len(trades_table') :
          /\ delivered'[trades_table'[i].buyOrderId].pair = trades_table'[i].pair
          /\ delivered'[trades_table'[i].sellOrderId].pair = trades_table'[i].pair]_vars

\* C33 witness: a trade on ETH-USD made by an invocation that was given
\* ETH-USD orders only, beside a resting order on BTC-USD.
C33_Witness ==
  /\ invoked.Records # <<>>
  /\ PairsOf(invoked.Records) = {"ETH-USD"}
  /\ Len(trades_table) > pre.trades
  /\ trades_table[Len(trades_table)].pair = "ETH-USD"
  /\ \E sd \in Sides : zsets[<<"BTC-USD", sd>>] # {}
  /\ lastprice["BTC-USD"] = 0

\* --------------------------------------- properties of invalid orders
\* C34: the matcher never trades or rests an invalid order: after a record
\* whose amount or price is zero or below, or whose side is neither buy nor
\* sell, no trade was written or published and every book is as it was.
C34_InvalidOrderIgnored ==
  delivered # <<>> /\ Invalid(LastOrder) =>
    /\ Len(trades_table) = pre.trades
    /\ Len(trades_queue) = pre.queue
    /\ zsets = pre.zsets

\* ----------------------------------------- properties of the pipeline
\* C35: every order the ingest function accepted and published can be
\* processed by the matcher: no record made of a published order raised, and
\* none is among the batchItemFailures.
C35_PublishedOrderProcessed ==
  /\ \A i \in 1..Len(log) : ~log[i].raised
  /\ response.batchItemFailures = <<>>

\* ------------------------------------------- properties of the fan-out
PostedTo(c) == {i \in 1..Len(posted) : posted[i].ConnectionId = c}

\* C36: every trade the matcher publishes is delivered by the trade
\* broadcaster to every connection subscribed to the trade's symbol: once
\* the broadcaster was given a message of the trades queue, each connection
\* whose subscriptions held the pair of the trade has been posted to.
C36_PublishedTradeBroadcast ==
  ws_event.handler = "trade_queue" =>
    \A x \in ws_event.before :
      contains(x.Subscriptions, ws_event.event.Records[1].body.pair)
        => PostedTo(x.ConnectionId) # {}

\* The one record of a trade broadcaster invocation that had one record.
OneTrade == ws_event.event.Records[1].body

BroadcastOne ==
  /\ ws_event.handler = "trade_broadcaster"
  /\ Len(ws_event.event.Records) = 1
  /\ OneTrade # InvalidJson

\* The connections that were subscribed to the symbol of the trade when
\* the invocation began; none when the trade has no symbol.
SubscribedBefore ==
  IF "symbol" \in DOMAIN OneTrade
    THEN {x.ConnectionId : x \in {y \in ws_event.before :
                                    contains(y.Subscriptions, OneTrade.symbol)}}
    ELSE {}

FanOut == ws_event.handler \in {"trade_broadcaster", "broadcaster"}

\* The body of the last record of the event.
LastTrade == ws_event.event.Records[Len(ws_event.event.Records)].body

\* The message a broadcaster makes of the last record: the broadcaster
\* relays every JSON body, the trade broadcaster the trades that have a
\* symbol.
Relayed ==
  /\ LastTrade # InvalidJson
  /\ ws_event.handler = "trade_broadcaster" => message_keys \subseteq DOMAIN LastTrade

LastMessage ==
  IF ws_event.handler = "broadcaster"
    THEN [type |-> "trade", data |-> LastTrade]
    ELSE trade_message(LastTrade)

\* The connections the last record is meant for, of those registered when
\* the invocation began.
LastTargets ==
  IF ~Relayed THEN {}
  ELSE IF ws_event.handler = "broadcaster"
    THEN {x.ConnectionId : x \in ws_event.before}
    ELSE {x.ConnectionId : x \in {y \in ws_event.before :
                                    contains(y.Subscriptions, LastTrade.symbol)}}

Attempted == {posted[i].ConnectionId : i \in 1..Len(posted)}

\* C38: fan-out is failure-isolated.  Whatever happened to the other
\* connections and to the records before it, the message of the last record
\* is sent to every connection it is meant for, but for a connection that an
\* earlier record of the invocation found gone; a connection found gone is
\* deleted from the registry, every other connection is kept as it was, and
\* the handler returns status 200.
C38_FailureIsolated ==
  FanOut =>
    /\ \A c \in LastTargets :
         \/ \E i \in PostedTo(c) : posted[i].Data = LastMessage
         \/ ws_event.links[c] = "gone" /\ c \in Attempted
    /\ \A x \in ws_event.before :
         IF x.ConnectionId \in Attempted /\ ws_event.links[x.ConnectionId] = "gone"
           THEN ~HasItem(connections, x.ConnectionId)
           ELSE x \in connections
    /\ connections \subseteq ws_event.before
    /\ ws_response.statusCode = 200

\* C38's case: an invocation with two records and two connections that both
\* are meant for; the first connection fails for another reason than being
\* gone and is kept, and the second has the messages of both records.
C38_Witness ==
  /\ FanOut
  /\ Len(ws_event.event.Records) = 2
  /\ ws_event.event.Records[1].body # InvalidJson
  /\ LastTargets = ConnectionIds
  /\ ws_event.links = [c \in ConnectionIds |-> IF c = "c1" THEN "error" ELSE "open"]
  /\ Cardinality(PostedTo("c2")) = 2
  /\ Cardinality(PostedTo("c1")) = 2
  /\ HasItem(connections, "c1")

\* ------------------------------------ properties of the registry
WsHandled == ws_event.handler = "ws_handler"

ItemsOf(table, c) == {x \in table : x.ConnectionId = c}

\* The symbols a subscribe event asks for; none when the body is not JSON.
Requested ==
  IF ws_event.event.body = InvalidJson \/ "symbols" \notin DOMAIN ws_event.event.body
    THEN <<>>
    ELSE ws_event.event.body.symbols

\* C39: the registry state machine of ws_handler.  $connect leaves one item
\* of the connection, with an empty subscription list; a subscribe with a
\* non-empty symbol list leaves the item with exactly the requested symbols
\* in upper case, whatever it was subscribed to before; a subscribe with no
\* symbols or with a body that is not JSON returns 400 and leaves the table
\* as it was; $disconnect leaves no item of the connection.  The items of
\* the other connections are never touched.
C39_RegistryStateMachine ==
  WsHandled =>
    /\ \A c \in ConnectionIds \ {ws_event.event.connectionId} :
         ItemsOf(connections, c) = ItemsOf(ws_event.before, c)
    /\ ws_event.event.routeKey = "$connect" =>
         /\ Cardinality(ItemsOf(connections, ws_event.event.connectionId)) = 1
         /\ \A x \in ItemsOf(connections, ws_event.event.connectionId) :
              x.Subscriptions = <<>>
         /\ ws_response.statusCode = 200
    /\ ws_event.event.routeKey = "subscribe" /\ Requested # <<>> =>
         /\ Cardinality(ItemsOf(connections, ws_event.event.connectionId)) = 1
         /\ \A x \in ItemsOf(connections, ws_event.event.connectionId) :
              /\ Len(x.Subscriptions) = Len(Requested)
              /\ \A i \in 1..Len(Requested) :
                   x.Subscriptions[i] = upper(Requested[i])
         /\ ws_response.statusCode = 200
    /\ ws_event.event.routeKey = "subscribe" /\ Requested = <<>> =>
         /\ connections = ws_event.before
         /\ ws_response.statusCode = 400
    /\ ws_event.event.routeKey = "$disconnect" =>
         /\ ItemsOf(connections, ws_event.event.connectionId) = {}
         /\ ws_response.statusCode = 200

\* C39's case: a connection subscribed to two symbols subscribes to one, in
\* lower case, and is then subscribed to that one in upper case only.
C39_Witness ==
  /\ WsHandled
  /\ ws_event.event.routeKey = "subscribe"
  /\ Requested = <<"btc-usd">>
  /\ \E x \in ItemsOf(ws_event.before, ws_event.event.connectionId) :
       x.Subscriptions = <<"ETH-USD", "BTC-USD">>
  /\ \E x \in ItemsOf(connections, ws_event.event.connectionId) :
       x.Subscriptions = <<"BTC-USD">>

\* The last event was the $disconnect of a connection that $connect had
\* registered.
Disconnected(c) ==
  /\ WsHandled
  /\ ws_event.event.routeKey = "$disconnect"
  /\ ws_event.event.connectionId = c
  /\ \E x \in ItemsOf(ws_event.before, c) : "ConnectedAt" \in DOMAIN x

\* C40: a disconnected connection stays out of the registry.  After the
\* $disconnect of a registered connection, no event but a $connect of that
\* connection, a subscribe in particular, leaves an item of it in the
\* table.
C40_DisconnectedStaysOut ==
  [][\A c \in ConnectionIds :
       Disconnected(c)
       /\ ~(ws_event'.handler = "ws_handler"
            /\ ws_event'.event.routeKey = "$connect"
            /\ ws_event'.event.connectionId = c)
       => ItemsOf(connections', c) = {}]_vars

====
